---- MODULE Spec2Model ----
(***************************************************************************)
(* Model of utils/grame_extractor.py: extract_frames(video_path,           *)
(* output_dir, num_frames).  One run of the function is a behaviour; pc    *)
(* is the position in the function body.  The video is described by three  *)
(* inputs: whether the backend can open it (openable), the frame count the *)
(* backend reports (reported) and the number of frames cap.read() really   *)
(* yields before it returns ret = False (srcLen).  A source frame is       *)
(* identified by its position in the stream.                               *)
(***************************************************************************)
EXTENDS Integers, Sequences, FiniteSets, TLC

\* Bounds of the explored inputs.
MaxT == 10      \* largest reported total frame count
MaxD == 11      \* largest number of frames the decoder really yields
MaxN == 12      \* largest requested num_frames

VARIABLES
    pc,             \* position in extract_frames
    openable,       \* input: cap.isOpened() is true after construction
    reported,       \* input: int(cap.get(CAP_PROP_FRAME_COUNT))
    srcLen,         \* input: frames cap.read() yields before ret = False
    num_frames,     \* input: the num_frames argument
    dirCreated,     \* os.makedirs has run
    capOpened,      \* the decoder handle is open
    releases,       \* number of cap.release() calls
    total_frames,   \* local total_frames (0 until assigned)
    frame_indices,  \* local frame_indices (1-based here, 0-based in Python)
    extracted,      \* local extracted
    current_frame,  \* local current_frame
    target_idx,     \* local target_idx
    pos,            \* decoder position: frames yielded so far
    reads,          \* number of cap.read() calls
    retFalse,       \* the last cap.read() returned ret = False
    files,          \* cv2.imwrite calls, in order: [name, frame]
    error,          \* the RuntimeError raised, or "none"
    output          \* the printed summary counts, in order

vars == <<pc, openable, reported, srcLen, num_frames, dirCreated, capOpened,
          releases, total_frames, frame_indices, extracted, current_frame,
          target_idx, pos, reads, retFalse, files, error, output>>

inputs == <<openable, reported, srcLen, num_frames>>
locals == <<total_frames, frame_indices, extracted, current_frame, target_idx>>

----------------------------------------------------------------------------
\* Pure parts of the function body.

\* math.floor(a / b) for a >= 0, b > 0.  Python divides in double precision
\* and floors; the quotient is exact to the integer part for a < 2^53.
FloorDiv(a, b) == a \div b

FrameIndexShifted(i, T, N) == FloorDiv((i + 1) * T, N)
FrameIndexCeil(i, T, N) == FloorDiv(i * T + N - 1, N)

\* line 19: math.floor(i * total_frames / num_frames)
FrameIndex(i, T, N) == FloorDiv(i * T, N)

\* lines 18-21: the list comprehension over range(num_frames)
FrameIndices(T, N) == [k \in 1..N |-> FrameIndex(k - 1, T, N)]

CountUnknownStrict(t) == t < 0

\* line 14: total_frames <= 0
CountUnknown(t) == t <= 0

\* line 27: cap.isOpened() and target_idx < num_frames
LoopCond(opened, ti, N) == opened /\ ti < N

\* line 32: current_frame == frame_indices[target_idx]
Matches(cf, idx, ti) == cf = idx[ti + 1]

FileIndexByFrame(ti, cf) == cf

\* line 33: the number formatted into the file name, frame_{target_idx:04d}
FileIndex(ti, cf) == ti

NextCurrentOnMiss(cf, matched) == IF matched THEN cf ELSE cf + 1

\* line 38: current_frame += 1, outside the if
NextCurrent(cf, matched) == cf + 1

----------------------------------------------------------------------------
Init ==
    /\ pc = "makedirs"
    /\ openable \in BOOLEAN
    /\ reported \in -1..MaxT
    /\ srcLen \in 0..MaxD
    /\ num_frames \in 0..MaxN
    /\ dirCreated = FALSE
    /\ capOpened = FALSE
    /\ releases = 0
    /\ total_frames = 0
    /\ frame_indices = <<>>
    /\ extracted = 0
    /\ current_frame = 0
    /\ target_idx = 0
    /\ pos = 0
    /\ reads = 0
    /\ retFalse = FALSE
    /\ files = <<>>
    /\ error = "none"
    /\ output = <<>>

\* line 7: os.makedirs(output_dir, exist_ok=True)
MakeDirs ==
    /\ pc = "makedirs"
    /\ dirCreated' = TRUE
    /\ pc' = "open"
    /\ UNCHANGED <<inputs, locals, capOpened, releases, pos, reads, retFalse,
                   files, error, output>>

\* lines 9-11: cap = cv2.VideoCapture(video_path); raise if not opened
OpenVideo ==
    /\ pc = "open"
    /\ capOpened' = openable
    /\ IF openable
         THEN pc' = "count" /\ error' = error
         ELSE pc' = "failed" /\ error' = "SourceUnopenable"
    /\ UNCHANGED <<inputs, locals, dirCreated, releases, pos, reads, retFalse,
                   files, output>>

\* lines 13-15: total_frames = int(cap.get(...)); raise if <= 0
GetFrameCount ==
    /\ pc = "count"
    /\ total_frames' = reported
    /\ IF CountUnknown(reported)
         THEN pc' = "failed" /\ error' = "UnknownLength"
         ELSE pc' = "indices" /\ error' = error
    /\ UNCHANGED <<inputs, frame_indices, extracted, current_frame,
                   target_idx, dirCreated, capOpened, releases, pos, reads,
                   retFalse, files, output>>

\* lines 18-25: frame_indices, extracted = 0, current_frame = 0, target_idx = 0
ComputeIndices ==
    /\ pc = "indices"
    /\ frame_indices' = FrameIndices(total_frames, num_frames)
    /\ extracted' = 0
    /\ current_frame' = 0
    /\ target_idx' = 0
    /\ pc' = "loop"
    /\ UNCHANGED <<inputs, total_frames, dirCreated, capOpened, releases, pos,
                   reads, retFalse, files, error, output>>

\* line 27: the while condition is false
LoopExit ==
    /\ pc = "loop"
    /\ ~LoopCond(capOpened, target_idx, num_frames)
    /\ pc' = "release"
    /\ UNCHANGED <<inputs, locals, dirCreated, capOpened, releases, pos,
                   reads, retFalse, files, error, output>>

ReadFailRaises ==
    /\ pc = "loop"
    /\ LoopCond(capOpened, target_idx, num_frames)
    /\ pos >= srcLen
    /\ reads' = reads + 1
    /\ retFalse' = TRUE
    /\ error' = "DecodeError"
    /\ pc' = "failed"
    /\ UNCHANGED <<inputs, locals, dirCreated, capOpened, releases, pos,
                   files, output>>

\* lines 28-30: cap.read() returns ret = False; break
ReadFail ==
    /\ pc = "loop"
    /\ LoopCond(capOpened, target_idx, num_frames)
    /\ pos >= srcLen
    /\ reads' = reads + 1
    /\ retFalse' = TRUE
    /\ pc' = "release"
    /\ UNCHANGED <<inputs, locals, dirCreated, capOpened, releases, pos,
                   files, error, output>>

\* lines 28-38: cap.read() yields the frame at position pos; one loop pass
ReadFrame ==
    /\ pc = "loop"
    /\ LoopCond(capOpened, target_idx, num_frames)
    /\ pos < srcLen
    /\ reads' = reads + 1
    /\ pos' = pos + 1
    /\ LET matched == Matches(current_frame, frame_indices, target_idx) IN
         /\ files' = IF matched
                       THEN Append(files,
                                [name  |-> FileIndex(target_idx, current_frame),
                                 frame |-> pos])
                       ELSE files
         /\ extracted' = IF matched THEN extracted + 1 ELSE extracted
         /\ target_idx' = IF matched THEN target_idx + 1 ELSE target_idx
         /\ current_frame' = NextCurrent(current_frame, matched)
    /\ UNCHANGED <<inputs, total_frames, frame_indices, dirCreated, capOpened,
                   releases, retFalse, error, output, pc>>

ReleaseSkipped ==
    /\ pc = "release"
    /\ pc' = "print"
    /\ UNCHANGED <<inputs, locals, dirCreated, capOpened, releases, pos,
                   reads, retFalse, files, error, output>>

\* line 40: cap.release()
Release ==
    /\ pc = "release"
    /\ capOpened' = FALSE
    /\ releases' = releases + 1
    /\ pc' = "print"
    /\ UNCHANGED <<inputs, locals, dirCreated, pos, reads, retFalse, files,
                   error, output>>

\* line 41: print(f"Extracted {extracted} frames to '{output_dir}'")
PrintSummary ==
    /\ pc = "print"
    /\ output' = Append(output, extracted)
    /\ pc' = "done"
    /\ UNCHANGED <<inputs, locals, dirCreated, capOpened, releases, pos,
                   reads, retFalse, files, error>>

Next ==
    \/ MakeDirs
    \/ OpenVideo
    \/ GetFrameCount
    \/ ComputeIndices
    \/ LoopExit
    \/ ReadFail
    \/ ReadFrame
    \/ Release
    \/ PrintSummary

Spec == Init /\ [][Next]_vars

\* The function is single-threaded and synchronous: a step that can be
\* taken is taken.
FairSpec == Init /\ [][Next]_vars /\ WF_vars(Next)

----------------------------------------------------------------------------
TypeOK ==
    /\ pc \in {"makedirs", "open", "count", "indices", "loop", "release",
               "print", "done", "failed"}
    /\ openable \in BOOLEAN /\ dirCreated \in BOOLEAN
    /\ capOpened \in BOOLEAN /\ retFalse \in BOOLEAN
    /\ reported \in Int /\ srcLen \in Nat /\ num_frames \in Nat
    /\ releases \in Nat /\ total_frames \in Int
    /\ extracted \in Nat /\ current_frame \in Nat /\ target_idx \in Nat
    /\ pos \in Nat /\ reads \in Nat
    /\ error \in {"none", "SourceUnopenable", "UnknownLength"}

\* Positions at which the locals of lines 18-25 are assigned.
Scanning == pc \in {"loop", "release", "print", "done"}

----------------------------------------------------------------------------
\* The run went through the scan and returned.
Done == pc = "done"

\* The decoder yields exactly the reported number of frames.
FullSource == srcLen = total_frames

\* q is floor(a / b), stated without the division operator.
IsFloorOf(q, a, b) == q * b <= a /\ a < (q + 1) * b

\* C1: for T >= 1 and 1 <= N <= T, when the decoder yields exactly T
\* frames, the run ends with extracted = N.
C1_ExtractsAllWhenNLeqT ==
    (Done /\ num_frames >= 1 /\ num_frames <= total_frames /\ FullSource)
        => extracted = num_frames

C1_Witness ==
    /\ Done /\ total_frames = 7 /\ num_frames = 3 /\ srcLen = 7
    /\ extracted = 3 /\ output = <<3>>

\* C2: for T >= 1 and N > T, when the decoder yields exactly T frames, the
\* run ends with extracted (and printed) count equal to T.
C2_ExtractsTWhenNGtT ==
    (Done /\ total_frames >= 1 /\ num_frames > total_frames /\ FullSource)
        => (extracted = total_frames /\ output = <<total_frames>>)

\* C3: for T >= 1 and N >= 1, frame_indices has exactly N entries, entry i
\* is floor(i*T/N), the list is non-decreasing and every entry is in [0, T).
C3_TargetIndexList ==
    (Scanning /\ num_frames >= 1) =>
        /\ total_frames >= 1
        /\ Len(frame_indices) = num_frames
        /\ \A k \in 1..num_frames :
              /\ IsFloorOf(frame_indices[k], (k - 1) * total_frames, num_frames)
              /\ 0 <= frame_indices[k]
              /\ frame_indices[k] < total_frames
        /\ \A k \in 1..(num_frames - 1) :
              frame_indices[k] <= frame_indices[k + 1]

C3_Witness ==
    /\ pc = "loop" /\ total_frames = 3 /\ num_frames = 5
    /\ frame_indices = <<0, 0, 1, 1, 2>>

\* C4: the files written are exactly frame_0000 .. frame_(extracted-1), in
\* increasing order of k, and file k holds the source frame at position
\* floor(k*T/N).
C4_FilesInTargetOrder ==
    /\ Len(files) = extracted
    /\ \A k \in 1..Len(files) :
          /\ files[k].name = k - 1
          /\ IsFloorOf(files[k].frame, (k - 1) * total_frames, num_frames)

C4_Witness ==
    /\ Done /\ total_frames = 10 /\ num_frames = 5 /\ extracted = 5
    /\ [k \in 1..5 |-> files[k].name] = <<0, 1, 2, 3, 4>>
    /\ [k \in 1..5 |-> files[k].frame] = <<0, 2, 4, 6, 8>>

\* C5: extracted <= N in every state, and a run ends with extracted < N
\* only if the number of frames decoded is <= frame_indices[i] for some i.
C5_ShortOnlyIfSourceShort ==
    /\ extracted <= num_frames
    /\ (Done /\ extracted < num_frames) =>
          \E k \in 1..Len(frame_indices) : pos <= frame_indices[k]

\* C6: an unopenable video fails with the unopenable-source error, an
\* opened one with reported total <= 0 fails with the unknown-length error;
\* in both cases nothing is read, no image is written and no summary is
\* printed.
C6_FatalBeforeScan ==
    /\ (~openable /\ pc \notin {"makedirs", "open"})
          => (pc = "failed" /\ error = "SourceUnopenable")
    /\ (openable /\ reported <= 0 /\ pc \notin {"makedirs", "open", "count"})
          => (pc = "failed" /\ error = "UnknownLength")
    /\ (~openable \/ reported <= 0 \/ error # "none" \/ pc = "failed")
          => (reads = 0 /\ pos = 0 /\ files = <<>> /\ output = <<>>
              /\ pc # "done")
    /\ (pc = "failed") <=> (error # "none")

C6_Witness ==
    /\ pc = "failed" /\ error = "UnknownLength" /\ openable
    /\ reported = 0 /\ srcLen >= 1 /\ num_frames >= 1

C6_WitnessUnopenable ==
    /\ pc = "failed" /\ error = "SourceUnopenable" /\ ~openable
    /\ reported >= 1 /\ srcLen >= 1 /\ num_frames >= 1

\* C7: on both ways out of the scan (failed read, target_idx = N) the
\* decoder handle is released exactly once, after the last read and before
\* the summary is printed, and no frame is read after the release.
C7_ReleaseState ==
    /\ releases <= 1
    /\ (pc = "loop" \/ pc = "release") => (releases = 0 /\ output = <<>>)
    /\ (pc = "print" \/ pc = "done") => (releases = 1 /\ ~capOpened)
    /\ output # <<>> => releases = 1

C7_ReleaseStep ==
    /\ reads' # reads => (releases = 0 /\ releases' = 0)
    /\ releases' # releases => (pc = "release" /\ output = <<>> /\ reads' = reads)
    /\ output' # output => (releases = 1 /\ releases' = 1)

C7_ReleasedOnceAfterScan == [][C7_ReleaseStep]_vars /\ []C7_ReleaseState

C7_Witness ==
    /\ Done /\ releases = 1 /\ ~capOpened /\ ~retFalse
    /\ target_idx = num_frames /\ reads >= 2 /\ pos < srcLen

C7_WitnessExhausted ==
    /\ Done /\ releases = 1 /\ ~capOpened /\ retFalse
    /\ target_idx < num_frames /\ reads >= 2

\* C8: the scan terminates; it ends at the first of a failed read or
\* target_idx reaching N; a failed read ends the run normally with the
\* count extracted so far; after the N-th target nothing more is read, so
\* with N <= T and a full source frame_indices[N-1]+1 frames are decoded.
C8_ScanState ==
    /\ (Scanning /\ pc # "loop") => (retFalse \/ target_idx = num_frames)
    /\ retFalse => (Scanning /\ pc # "loop" /\ error = "none"
                    /\ reads = pos + 1)
    /\ ~retFalse => reads = pos
    /\ Done => output = <<extracted>>
    /\ (Done /\ num_frames >= 1 /\ num_frames <= total_frames
             /\ srcLen >= total_frames)
          => (pos = frame_indices[num_frames] + 1 /\ reads = pos)

C8_ScanStep ==
    reads' # reads => (~retFalse /\ target_idx < num_frames /\ pc = "loop")

C8_ScanEnds ==
    /\ []C8_ScanState
    /\ [][C8_ScanStep]_vars
    /\ <>(pc = "done" \/ pc = "failed")

C8_Witness ==
    /\ Done /\ retFalse /\ error = "none" /\ pos < total_frames
    /\ pos = srcLen /\ extracted = 2 /\ num_frames <= total_frames
    /\ output = <<2>>

C8_WitnessAllTargets ==
    /\ Done /\ ~retFalse /\ num_frames = 3 /\ total_frames = 10
    /\ srcLen = 10 /\ pos = 7

\* The next target refers to a source position the scan has passed.
Stuck ==
    /\ Scanning
    /\ target_idx < num_frames
    /\ frame_indices[target_idx + 1] < current_frame

\* Positions k such that target k (0-based) repeats target k-1.
DupPositions ==
    {k \in 1..(Len(frame_indices) - 1) : frame_indices[k + 1] = frame_indices[k]}

\* Number of targets before the first duplicate.
FirstDup == CHOOSE k \in DupPositions : \A j \in DupPositions : k <= j

\* C9: a frame is matched against at most one target, current_frame only
\* grows; once frame_indices[target_idx] < current_frame it stays so and
\* nothing more is extracted, the scan reads to the end of the source and
\* ends with extracted = number of targets before the first duplicate,
\* which is < N (exactly 1 whenever N > T).
C9_DupState ==
    /\ \A j, k \in 1..Len(files) : j # k => files[j].frame # files[k].frame
    /\ Stuck => /\ DupPositions # {}
                /\ extracted = FirstDup
                /\ extracted < num_frames
                /\ num_frames > total_frames
    /\ (Stuck /\ pc # "loop") => (retFalse /\ pos = srcLen)
    /\ (Done /\ num_frames > total_frames /\ srcLen >= 1) =>
          (Stuck /\ extracted = 1)

C9_DupStep ==
    /\ extracted' <= extracted + 1
    /\ Len(files') <= Len(files) + 1
    /\ current_frame' >= current_frame
    /\ Stuck => (Stuck' /\ extracted' = extracted /\ files' = files
                 /\ target_idx' = target_idx)

C9_PassedDuplicateNeverMatched == [][C9_DupStep]_vars /\ []C9_DupState

C9_Witness ==
    /\ Done /\ Stuck /\ total_frames = 4 /\ num_frames = 6 /\ srcLen = 4
    /\ extracted = 1 /\ pos = 4 /\ retFalse

\* C10: every invocation that opened the source has released the handle
\* by the time it ends, also when it fails on total frame count <= 0.
C10_ReleasedOnEveryExit ==
    ((pc = "done" \/ pc = "failed") /\ openable)
        => (releases >= 1 /\ ~capOpened)

====
